---- MODULE Spec2Model ----
(***************************************************************************)
(* State-machine model of tools/stat-monitor/stat_monitor.py (StatMonitor). *)
(*                                                                         *)
(* Three threads share self.data: the MQTT network thread (on_mqtt_connect,*)
(* on_mqtt_disconnect, on_mqtt_message), the update thread (update_loop)   *)
(* and the Tk main thread, which runs the callbacks queued with            *)
(* root.after(0, ...) in FIFO order (create_battery_tab, update_ui).       *)
(*                                                                         *)
(* JSON values are records [t, n, s, l]: t is the Python type after        *)
(* json.loads ("int", "bool", "str", "list"), n the number (a bool is the  *)
(* int 1 or 0, as in Python), s the string, l the list.  A dict is a       *)
(* function from its keys to such values.  Text widgets hold strings; a    *)
(* multi-line text is the sequence of its lines, and the bullet U+2022 of  *)
(* the fault lines is written "*".                                         *)
(***************************************************************************)
EXTENDS Integers, Sequences, FiniteSets, TLC

VARIABLES
  battery_sources,   \* self.data['battery_sources']: source name -> merged dict
  system,            \* self.data['system']
  conn_status,       \* self.data['connection']['status']
  last_update,       \* self.data['connection']['last_update'] (NoTime = None)
  battery_tabs,      \* keys of self.battery_tabs
  notebook,          \* texts of the tabs added to self.notebook, in order
  battery_widgets,   \* self.battery_widgets: source name -> widgets
  connection_label,  \* self.connection_label: [text, style]
  system_view,       \* the System tab's widgets
  after_queue,       \* callbacks queued with root.after(0, ...), FIFO
  m_pc,              \* position of the MQTT thread inside on_mqtt_message
  m_payload,         \* on_mqtt_message's local payload
  m_source,          \* on_mqtt_message's local source_name
  n_msgs,            \* messages delivered so far
  upd_pc,            \* position of the update thread inside update_loop
  running,           \* self.running
  now,               \* wall clock, whole seconds since start
  ui_todo,           \* position of the main thread inside update_ui: the statements
                     \* of the tick under way that are still to run
  ui_seen            \* history: the values battery_sources has had since the tick
                     \* under way began

vars == <<battery_sources, system, conn_status, last_update, battery_tabs,
          notebook, battery_widgets, connection_label, system_view,
          after_queue, m_pc, m_payload, m_source, n_msgs, upd_pc, running, now,
          ui_todo, ui_seen>>

core == <<battery_sources, system, conn_status, last_update>>
gui == <<battery_tabs, notebook, battery_widgets, connection_label, system_view>>
tick == <<ui_todo, ui_seen>>

----------------------------------------------------------------------------
(* Bounds of the model *)

MaxMsgs == 2
MaxTime == 31
MaxKeys == 3
TimeSteps == {30, 31}

----------------------------------------------------------------------------
(* Python values *)

NoTime == -1
None == "None"

VInt(i) == [t |-> "int", n |-> i, s |-> "", l |-> <<>>]
VBool(b) == [t |-> "bool", n |-> IF b THEN 1 ELSE 0, s |-> "", l |-> <<>>]
VStr(str) == [t |-> "str", n |-> 0, s |-> str, l |-> <<>>]
VList(lst) == [t |-> "list", n |-> 0, s |-> "", l |-> lst]
\* JSON null
VNull == [t |-> "NoneType", n |-> 0, s |-> "", l |-> <<>>]

EmptyDict == [k \in {} |-> VInt(0)]

\* d.get(k, default)
Get(d, k, default) == IF k \in DOMAIN d THEN d[k] ELSE default

\* bool(v): Python truthiness
Truthy(v) ==
  CASE v.t \in {"int", "bool"} -> v.n # 0
    [] v.t = "str" -> v.s # ""
    [] v.t = "list" -> v.l # <<>>
    [] OTHER -> FALSE

\* isinstance(v, (int, float)): bool is a subclass of int
IsNumber(v) == v.t \in {"int", "float", "bool"}

\* isinstance(v, bool)
IsBool(v) == v.t = "bool"

\* isinstance(v, int)
IsInt(v) == v.t \in {"int", "bool"}

\* str(v)
PyStr(v) ==
  CASE v.t = "int" -> ToString(v.n)
    [] v.t = "bool" -> (IF v.n = 1 THEN "True" ELSE "False")
    [] v.t = "str" -> v.s
    [] v.t = "NoneType" -> "None"
    [] OTHER -> "[...]"

Zeros(d) == CASE d = 0 -> "" [] d = 1 -> ".0" [] d = 2 -> ".00" [] OTHER -> ".000"

\* f"{v:.<d>f}" of a whole number
Fixed(v, d) == ToString(v.n) \o Zeros(d)

----------------------------------------------------------------------------
(* The messages the broker delivers: msg.payload *)

Cell1 == [index |-> VInt(1), voltage |-> VInt(3), balance |-> VBool(FALSE),
          cell_status |-> VStr("WARNING")]
Temp1 == [index |-> VInt(1), temperature |-> VInt(25)]

Chan1 == [channel |-> VInt(1), voltage |-> VInt(5)]

Obj(o) == [kind |-> "object", obj |-> o]

Payloads == <<
  Obj([device |-> VStr("Battery"), type |-> VStr("DalyBMS"), voltage |-> VInt(13),
       battery_level |-> VInt(20), cells |-> VList(<<Cell1>>)]),
  Obj([device |-> VStr("Battery"), type |-> VStr("DalyBMS"), charge_fet |-> VBool(TRUE),
       discharge_fet |-> VBool(FALSE), battery_level |-> VInt(41),
       cells |-> VList(<<>>), faults |-> VList(<<"F1">>)]),
  Obj([device |-> VStr("BatteryStatus"), type |-> VStr(""), battery_level |-> VInt(40),
       sources |-> VList(<<"INA238", "DalyBMS">>),
       critical_faults |-> VList(<<"C1">>), faults |-> VList(<<"F1">>)]),
  Obj([device |-> VStr("BatteryStatus"), battery_status |-> VStr("OK"),
       sources_str |-> VStr("INA238"), warning_faults |-> VList(<<"W1">>)]),
  Obj([device |-> VStr("BatteryStatus"), type |-> VStr("X"), critical_faults |-> VList(<<>>),
       warning_faults |-> VList(<<>>), faults |-> VList(<<>>)]),
  Obj([device |-> VStr("Battery"), type |-> VStr("INA238"), voltage |-> VInt(12),
       current |-> VInt(-2), battery_level |-> VInt(21)]),
  Obj([device |-> VStr("Battery"), temperature |-> VInt(25),
       temperatures |-> VList(<<Temp1>>)]),
  Obj([device |-> VStr("Battery"), type |-> VStr("X"), temperatures |-> VList(<<>>)]),
  Obj([device |-> VStr("CPU"), usage |-> VInt(55)]),
  Obj([device |-> VStr("Memory"), usage |-> VInt(40)]),
  Obj([device |-> VStr("Fan"), rpm |-> VInt(1200), load |-> VInt(40)]),
  Obj([device |-> VStr("SystemPower"), channels |-> VList(<<Chan1>>)]),
  Obj([device |-> VStr("GPS"), type |-> VStr("DalyBMS"), voltage |-> VInt(5)]),
  Obj([type |-> VStr("INA238"), voltage |-> VInt(5)]),
  [kind |-> "array", obj |-> EmptyDict],
  [kind |-> "garbage", obj |-> EmptyDict]
>>

\* a cell whose voltage the BMS reports as null
CellNull == [index |-> VInt(2), voltage |-> VNull]

\* messages among which one makes update_cells_display raise
FailurePayloads == <<
  Obj([device |-> VStr("Battery"), type |-> VStr("DalyBMS"), voltage |-> VInt(13)]),
  Obj([device |-> VStr("Battery"), type |-> VStr("DalyBMS"),
       cells |-> VList(<<Cell1, CellNull>>), faults |-> VList(<<"F1">>)]),
  Obj([device |-> VStr("BatteryStatus"), battery_level |-> VInt(41),
       temperatures |-> VList(<<Temp1>>)]),
  Obj([device |-> VStr("CPU"), usage |-> VInt(55)]),
  Obj([device |-> VStr("Fan"), rpm |-> VInt(1200), load |-> VInt(40)])
>>

\* two records of one source that rewrite the same fields, the CPU metric, and
\* two Fan messages
RacePayloads == <<
  Obj([device |-> VStr("Battery"), type |-> VStr("DalyBMS"), voltage |-> VInt(13),
       current |-> VInt(1)]),
  Obj([device |-> VStr("Battery"), type |-> VStr("DalyBMS"), voltage |-> VInt(14),
       current |-> VInt(2)]),
  Obj([device |-> VStr("CPU"), usage |-> VInt(55)]),
  Obj([device |-> VStr("Fan"), rpm |-> VInt(1200), load |-> VInt(40)]),
  Obj([device |-> VStr("Fan"), rpm |-> VInt(900), load |-> VInt(20)])
>>

\* json.loads(msg.payload.decode()): raises json.JSONDecodeError on text that is
\* not JSON; an array or a scalar decodes, but is no dict.
json_loads(raw) ==
  [ok |-> raw.kind # "garbage", dict |-> raw.kind = "object", value |-> raw.obj]

----------------------------------------------------------------------------
(* on_mqtt_message: the source a record belongs to *)

StrOf(v) == IF v.t = "str" THEN v.s ELSE "?"

device_type(payload) == StrOf(Get(payload, "device", VStr("")))
device_subtype(payload) == StrOf(Get(payload, "type", VStr("")))

\* a slip in the order of the tests: DalyBMS falls through to the default
source_name_for_default(payload) ==
  IF device_type(payload) = "Battery"
  THEN IF device_subtype(payload) = "INA238" THEN "INA238 Power Monitor"
       ELSE "Battery Monitor"
  ELSE IF device_type(payload) = "BatteryStatus" THEN "Unified Battery"
  ELSE None

\* the default name given to every device but BatteryStatus
source_name_for_any(payload) ==
  IF device_type(payload) = "BatteryStatus" THEN "Unified Battery"
  ELSE IF device_subtype(payload) = "INA238" THEN "INA238 Power Monitor"
  ELSE IF device_subtype(payload) = "DalyBMS" THEN "Daly BMS"
  ELSE "Battery Monitor"

source_name_for(payload) ==
  IF device_type(payload) = "Battery"
  THEN IF device_subtype(payload) = "INA238" THEN "INA238 Power Monitor"
       ELSE IF device_subtype(payload) = "DalyBMS" THEN "Daly BMS"
       ELSE "Battery Monitor"
  ELSE IF device_type(payload) = "BatteryStatus" THEN "Unified Battery"
  ELSE None

\* a merge that replaces the state by the new record
dict_update_replace(old, new) == new

\* a merge in which the stored value wins (dict.setdefault per key)
dict_update_keep(old, new) ==
  [k \in DOMAIN old \cup DOMAIN new |-> IF k \in DOMAIN old THEN old[k] ELSE new[k]]

\* dict.update
dict_update(old, new) ==
  [k \in DOMAIN old \cup DOMAIN new |-> IF k \in DOMAIN new THEN new[k] ELSE old[k]]

\* an assignment that starts the dict anew
dict_set_alone(d, k, v) == [x \in {k} |-> v]

\* d[k] = v
dict_set(d, k, v) == [x \in DOMAIN d \cup {k} |-> IF x = k THEN v ELSE d[x]]

----------------------------------------------------------------------------
(* get_labels_for_source: the rows of a tab, as (label_text, key, unit) *)

\* the rows of a family given to every source
Contains_any(source_name, needle) == TRUE

\* needle in source_name, for the four names on_mqtt_message assigns
Contains(source_name, needle) == source_name = needle

Row(label_text, key, unit) == <<label_text, key, unit>>

IfKey(payload_data, key, rows) == IF key \in DOMAIN payload_data THEN rows ELSE <<>>

base_labels ==
  << Row("Voltage:", "voltage", "V"), Row("Current:", "current", "A"),
     Row("Power:", "power", "W"), Row("Battery Level:", "battery_level", "%") >>

common_labels(payload_data) ==
     IfKey(payload_data, "battery_status", <<Row("Status:", "battery_status", "")>>)
  \o IfKey(payload_data, "time_remaining_fmt",
           <<Row("Time Remaining:", "time_remaining_fmt", "")>>)
  \o IfKey(payload_data, "temperature", <<Row("Temperature:", "temperature", "C")>>)
  \o IfKey(payload_data, "battery_chemistry", <<Row("Chemistry:", "battery_chemistry", "")>>)

daly_labels(payload_data) ==
     IfKey(payload_data, "charge_fet",
           <<Row("Charge FET:", "charge_fet", ""), Row("Discharge FET:", "discharge_fet", "")>>)
  \o IfKey(payload_data, "charging_state", <<Row("State:", "charging_state", "")>>)
  \o IfKey(payload_data, "cycles", <<Row("Cycles:", "cycles", "")>>)
  \o IfKey(payload_data, "remaining_capacity_mah",
           <<Row("Remaining:", "remaining_capacity_mah", "mAh")>>)
  \o IfKey(payload_data, "vmax",
           <<Row("Cell Vmax:", "vmax", "V"), Row("Cell Vmin:", "vmin", "V")>>)
  \o IfKey(payload_data, "vdelta", <<Row("Voltage Delta:", "vdelta", "V")>>)
  \o IfKey(payload_data, "tmax",
           <<Row("Temp Max:", "tmax", "C"), Row("Temp Min:", "tmin", "C")>>)
  \o IfKey(payload_data, "charger_present",
           <<Row("Charger Present:", "charger_present", ""),
             Row("Load Present:", "load_present", "")>>)

unified_labels(payload_data) ==
     <<Row("Data Sources:", "sources_str", "")>>
  \o IfKey(payload_data, "status_reason", <<Row("Status Reason:", "status_reason", "")>>)
  \o IfKey(payload_data, "critical_fault_count",
           <<Row("Critical Faults:", "critical_fault_count", ""),
             Row("Warning Faults:", "warning_fault_count", "")>>)
  \o IfKey(payload_data, "battery_cells_series",
           <<Row("Cells (Series):", "battery_cells_series", ""),
             Row("Cells (Parallel):", "battery_cells_parallel", "")>>)
  \o IfKey(payload_data, "battery_nominal_voltage",
           <<Row("Nominal Voltage:", "battery_nominal_voltage", "V")>>)
  \o IfKey(payload_data, "charging_state", <<Row("State:", "charging_state", "")>>)

get_labels_for_source(source_name, payload_data) ==
     base_labels
  \o common_labels(payload_data)
  \o (IF Contains(source_name, "Daly BMS") THEN daly_labels(payload_data) ELSE <<>>)
  \o (IF Contains(source_name, "Unified Battery") THEN unified_labels(payload_data) ELSE <<>>)

RowKeys(rows) == {rows[i][2] : i \in 1..Len(rows)}

----------------------------------------------------------------------------
(* update_battery_tab: the text and colour of one row *)

RECURSIVE Join(_)
\* ', '.join(lst)
Join(lst) ==
  IF lst = <<>> THEN ""
  ELSE IF Len(lst) = 1 THEN lst[1]
  ELSE lst[1] \o ", " \o Join(Tail(lst))

\* text.lower(), for the spellings of the charging states
Lower(text) ==
  CASE text \in {"Charging", "CHARGING", "charging"} -> "charging"
    [] text \in {"Discharging", "DISCHARGING", "discharging"} -> "discharging"
    [] text \in {"Idle", "IDLE", "idle"} -> "idle"
    [] OTHER -> text

number_text(key, value) ==
  IF key \in {"voltage", "current", "power"} THEN Fixed(value, 2)
  ELSE IF key = "temperature" THEN Fixed(value, 1)
  ELSE IF key = "battery_level" THEN Fixed(value, 1)
  ELSE IF key \in {"vmax", "vmin", "vdelta", "battery_nominal_voltage"} THEN Fixed(value, 3)
  ELSE IF key = "remaining_capacity_mah" THEN Fixed(value, 0)
  ELSE PyStr(value)

\* the precomputed string taken first
sources_text_str_first(source_data) ==
  IF "sources_str" \in DOMAIN source_data THEN PyStr(source_data["sources_str"])
  ELSE IF "sources" \in DOMAIN source_data THEN Join(source_data["sources"].l)
  ELSE "--"

\* lines 594-603
sources_text(source_data) ==
  IF "sources" \in DOMAIN source_data THEN Join(source_data["sources"].l)
  ELSE PyStr(Get(source_data, "sources_str", VStr("--")))

label_text(key, source_data) ==
  LET value == Get(source_data, key, VStr("--")) IN
  IF IsNumber(value) THEN number_text(key, value)
  ELSE IF IsBool(value) THEN (IF Truthy(value) THEN "On" ELSE "Off")
  ELSE IF key = "sources_str" THEN sources_text(source_data)
  ELSE IF Truthy(value) THEN PyStr(value) ELSE "--"

label_foreground(key, text) ==
  IF key = "charging_state"
  THEN CASE Lower(text) = "charging" -> "#44ff44"
         [] Lower(text) = "discharging" -> "#ffaa00"
         [] Lower(text) = "idle" -> "#aaaaaa"
         [] OTHER -> "#ffffff"
  ELSE "#ffffff"

label_config(key, source_data) ==
  [text |-> label_text(key, source_data),
   foreground |-> label_foreground(key, label_text(key, source_data))]

\* the two limits taken as not yet reached
percent_style_below(battery_level) ==
  IF battery_level.n < 20 THEN "Critical.TLabel"
  ELSE IF battery_level.n < 40 THEN "Warning.TLabel"
  ELSE "Normal.TLabel"

\* lines 627-632
percent_style(battery_level) ==
  IF battery_level.n <= 20 THEN "Critical.TLabel"
  ELSE IF battery_level.n <= 40 THEN "Warning.TLabel"
  ELSE "Normal.TLabel"

----------------------------------------------------------------------------
(* update_cells_display, update_temps_display, update_faults_display *)

Pad2(i) == IF i >= 0 /\ i < 10 THEN " " \o ToString(i) ELSE ToString(i)

cell_row(cell) ==
  LET status == PyStr(Get(cell, "cell_status", VStr("NORMAL"))) IN
  [text |-> "Cell " \o Pad2(Get(cell, "index", VInt(0)).n),
   voltage |-> Fixed(Get(cell, "voltage", VInt(0)), 3),
   balance |-> IF Truthy(Get(cell, "balance", VBool(FALSE))) THEN "Yes" ELSE "No",
   status |-> status,
   tags |-> IF status = "CRITICAL" THEN "critical"
            ELSE IF status = "WARNING" THEN "warning" ELSE ""]

temp_row(temp_sensor) ==
  [text |-> "Sensor " \o PyStr(Get(temp_sensor, "index", VInt(0))),
   temperature |-> Fixed(Get(temp_sensor, "temperature", VInt(0)), 1)]

\* lines 684-685: f"{cell_num:2d}" raises on a value that is no int, f"{voltage:.3f}"
\* on one that is no number
cell_raises(cell) ==
  \/ ~IsInt(Get(cell, "index", VInt(0)))
  \/ ~IsNumber(Get(cell, "voltage", VInt(0)))

\* line 706: f"{temperature:.1f}"
temp_raises(temp_sensor) == ~IsNumber(Get(temp_sensor, "temperature", VInt(0)))

\* the rows inserted before the loop ends, raised[i] telling whether the formatting
\* of entry i raises: all of them, or those before the first such entry
Inserted(raised) ==
  IF \E i \in 1..Len(raised) : raised[i]
  THEN (CHOOSE i \in 1..Len(raised) : raised[i] /\ \A j \in 1..(i - 1) : ~raised[j]) - 1
  ELSE Len(raised)

update_cells_display_raises(source_data) ==
  LET cells == Get(source_data, "cells", VList(<<>>)) IN
  Truthy(cells) /\ \E i \in 1..Len(cells.l) : cell_raises(cells.l[i])

update_temps_display_raises(source_data) ==
  LET temperatures == Get(source_data, "temperatures", VList(<<>>)) IN
  Truthy(temperatures) /\ \E i \in 1..Len(temperatures.l) : temp_raises(temperatures.l[i])

\* the new rows added below the old ones, which are not deleted
update_cells_display_append(items, source_data) ==
  LET cells == Get(source_data, "cells", VList(<<>>)) IN
  IF Truthy(cells)
  THEN items \o [i \in 1..Inserted([j \in 1..Len(cells.l) |-> cell_raises(cells.l[j])]) |->
                   cell_row(cells.l[i])]
  ELSE items

\* the rows of a tree after an update: replaced only by a non-empty list
update_cells_display(items, source_data) ==
  LET cells == Get(source_data, "cells", VList(<<>>)) IN
  IF Truthy(cells)
  THEN [i \in 1..Inserted([j \in 1..Len(cells.l) |-> cell_raises(cells.l[j])]) |->
          cell_row(cells.l[i])]
  ELSE items

\* a tree emptied by an empty list
update_temps_display_clear(items, source_data) ==
  LET temperatures == Get(source_data, "temperatures", VList(<<>>)) IN
  IF Truthy(temperatures)
  THEN [i \in 1..Inserted([j \in 1..Len(temperatures.l) |->
                                temp_raises(temperatures.l[j])]) |->
          temp_row(temperatures.l[i])]
  ELSE <<>>

\* lines 692-706
update_temps_display(items, source_data) ==
  LET temperatures == Get(source_data, "temperatures", VList(<<>>)) IN
  IF Truthy(temperatures)
  THEN [i \in 1..Inserted([j \in 1..Len(temperatures.l) |->
                                temp_raises(temperatures.l[j])]) |->
          temp_row(temperatures.l[i])]
  ELSE items

fault_lines(header, faults) ==
  IF Truthy(faults) THEN <<header>> \o [i \in 1..Len(faults.l) |-> "  * " \o faults.l[i]]
  ELSE <<>>

\* the fallback block shown beside the other two
show_general_always(critical_faults, warning_faults, general_faults) ==
  Truthy(general_faults)

\* line 728
show_general(critical_faults, warning_faults, general_faults) ==
  Truthy(general_faults) /\ ~(Truthy(critical_faults) \/ Truthy(warning_faults))

update_faults_display(source_data) ==
  LET critical_faults == Get(source_data, "critical_faults", VList(<<>>))
      warning_faults == Get(source_data, "warning_faults", VList(<<>>))
      general_faults == Get(source_data, "faults", VList(<<>>))
      faults_content ==
           fault_lines("CRITICAL FAULTS:", critical_faults)
        \o fault_lines("WARNING FAULTS:", warning_faults)
        \o (IF show_general(critical_faults, warning_faults, general_faults)
            THEN fault_lines("ACTIVE FAULTS:", general_faults) ELSE <<>>)
  IN IF faults_content = <<>> THEN <<"No active faults">> ELSE faults_content

any_faults(d) ==
     Truthy(Get(d, "critical_faults", VList(<<>>)))
  \/ Truthy(Get(d, "warning_faults", VList(<<>>)))
  \/ Truthy(Get(d, "faults", VList(<<>>)))

----------------------------------------------------------------------------
(* create_battery_tab, update_battery_tab *)

new_widgets(source_name, payload_data) ==
  LET labels == get_labels_for_source(source_name, payload_data) IN
  [rows |-> labels,
   labels |-> [k \in RowKeys(labels) |-> [text |-> "--", foreground |-> ""]],
   progress |-> IF "battery_level" \in RowKeys(labels) THEN 0 ELSE -1,
   percent_label |-> [text |-> "0%", style |-> "Dark.TLabel"],
   cells_tree |-> Truthy(Get(payload_data, "cells", VList(<<>>))),
   cells_items |-> <<>>,
   temps_tree |-> Truthy(Get(payload_data, "temperatures", VList(<<>>))),
   temps_items |-> <<>>,
   faults_text |-> any_faults(payload_data),
   faults_content |-> <<>>]

\* a section that follows the data instead of staying
section_exists_now(existing, data) == Truthy(data)

\* lines 636-641, 645-650, 654-659: a section exists once created, and is created
\* when its data is there
section_exists(existing, data) == existing \/ Truthy(data)

\* lines 621-633: the progress bar and the percentage beside it
progress_config(widgets, source_data) ==
  LET battery_level == Get(source_data, "battery_level", VInt(0)) IN
  [progress |-> IF IsNumber(battery_level) THEN battery_level.n ELSE widgets.progress,
   percent_label |->
     IF IsNumber(battery_level)
     THEN [text |-> Fixed(battery_level, 1) \o "%", style |-> percent_style(battery_level)]
     ELSE widgets.percent_label]

\* lines 636-641
cells_section(widgets, source_data) ==
  [cells_tree |-> section_exists(widgets.cells_tree, Get(source_data, "cells", VList(<<>>))),
   cells_items |-> update_cells_display(widgets.cells_items, source_data)]

\* lines 645-650
temps_section(widgets, source_data) ==
  [temps_tree |->
     section_exists(widgets.temps_tree, Get(source_data, "temperatures", VList(<<>>))),
   temps_items |-> update_temps_display(widgets.temps_items, source_data)]

\* lines 654-659
faults_section(widgets, source_data) ==
  [faults_text |-> section_exists(widgets.faults_text, VBool(any_faults(source_data))),
   faults_content |->
     IF section_exists(widgets.faults_text, VBool(any_faults(source_data)))
     THEN update_faults_display(source_data)
     ELSE widgets.faults_content]

\* update_battery_tab up to its end, or up to the statement that raises: the rows
\* and the progress bar come first, then the cells, the temperatures, the faults
updated_widgets(widgets, source_data) ==
  LET cells_raised == update_cells_display_raises(source_data)
      temps_raised == cells_raised \/ update_temps_display_raises(source_data)
  IN
  [rows |-> widgets.rows,
   labels |-> [k \in DOMAIN widgets.labels |-> label_config(k, source_data)],
   progress |-> progress_config(widgets, source_data).progress,
   percent_label |-> progress_config(widgets, source_data).percent_label,
   cells_tree |-> cells_section(widgets, source_data).cells_tree,
   cells_items |-> cells_section(widgets, source_data).cells_items,
   temps_tree |->
     IF cells_raised THEN widgets.temps_tree
     ELSE temps_section(widgets, source_data).temps_tree,
   temps_items |->
     IF cells_raised THEN widgets.temps_items
     ELSE temps_section(widgets, source_data).temps_items,
   faults_text |->
     IF temps_raised THEN widgets.faults_text
     ELSE faults_section(widgets, source_data).faults_text,
   faults_content |->
     IF temps_raised THEN widgets.faults_content
     ELSE faults_section(widgets, source_data).faults_content]

update_battery_tab(source_name) ==
  updated_widgets(battery_widgets[source_name],
                  Get(battery_sources, source_name, EmptyDict))

\* the call ends with an exception
update_battery_tab_raises(source_name) ==
  LET source_data == Get(battery_sources, source_name, EmptyDict) IN
  update_cells_display_raises(source_data) \/ update_temps_display_raises(source_data)

----------------------------------------------------------------------------
(* update_ui: connection status, update_system_display *)

StaleAfter == 30

Two(i) == IF i < 10 THEN "0" \o ToString(i) ELSE ToString(i)

\* last_update.strftime('%H:%M:%S'), the clock starting at midnight
strftime(time) ==
  Two((time \div 3600) % 24) \o ":" \o Two((time \div 60) % 60) \o ":" \o Two(time % 60)

\* the boundary taken as already stale
is_stale_from(age) == age >= StaleAfter

\* line 546
is_stale(age) == age > StaleAfter

\* the age of the last message shown whatever the status
connection_config_by_age ==
  IF last_update # NoTime
  THEN IF is_stale(now - last_update)
       THEN [text |-> "Connected (No data for " \o ToString(now - last_update) \o "s)",
             style |-> "Warning.TLabel"]
       ELSE [text |-> "Connected (Last: " \o strftime(last_update) \o ")",
             style |-> "Normal.TLabel"]
  ELSE [text |-> conn_status, style |-> "Critical.TLabel"]

\* lines 541-556
connection_config ==
  IF conn_status = "Connected" /\ last_update # NoTime
  THEN IF is_stale(now - last_update)
       THEN [text |-> "Connected (No data for " \o ToString(now - last_update) \o "s)",
             style |-> "Warning.TLabel"]
       ELSE [text |-> "Connected (Last: " \o strftime(last_update) \o ")",
             style |-> "Normal.TLabel"]
  ELSE [text |-> conn_status, style |-> "Critical.TLabel"]

channel_row(channel) ==
  [text |-> PyStr(Get(channel, "label",
                      VStr("Channel " \o PyStr(Get(channel, "channel", VInt(0)))))),
   voltage |-> Fixed(Get(channel, "voltage", VInt(0)), 3),
   current |-> Fixed(Get(channel, "current", VInt(0)), 3),
   power |-> Fixed(Get(channel, "power", VInt(0)), 3)]

\* lines 762-765
fan_rpm_text(fan_rpm) ==
  IF IsInt(fan_rpm) /\ fan_rpm.n > 0 THEN PyStr(fan_rpm) \o " RPM" ELSE "-- RPM"

\* lines 767-770
fan_load_text(fan_load) ==
  IF IsInt(fan_load) /\ fan_load.n >= 0 THEN "(" \o PyStr(fan_load) \o "%)" ELSE "(--%)"

update_system_display ==
  LET cpu_usage == Get(system, "cpu_usage", VInt(0))
      memory_usage == Get(system, "memory_usage", VInt(0))
      fan_rpm == Get(system, "fan_rpm", VInt(0))
      fan_load == Get(system, "fan_load", VInt(0))
      power_channels == Get(system, "power_channels", VList(<<>>))
  IN
  [cpu_progress |-> IF IsNumber(cpu_usage) THEN cpu_usage.n ELSE system_view.cpu_progress,
   cpu |-> IF IsNumber(cpu_usage) THEN Fixed(cpu_usage, 1) \o "%" ELSE system_view.cpu,
   memory_progress |->
     IF IsNumber(memory_usage) THEN memory_usage.n ELSE system_view.memory_progress,
   memory |->
     IF IsNumber(memory_usage) THEN Fixed(memory_usage, 1) \o "%" ELSE system_view.memory,
   fan_rpm |-> fan_rpm_text(fan_rpm),
   fan_load |-> fan_load_text(fan_load),
   power_tree |->
     IF Truthy(power_channels)
     THEN [i \in 1..Len(power_channels.l) |-> channel_row(power_channels.l[i])]
     ELSE system_view.power_tree]

----------------------------------------------------------------------------
(* The state after StatMonitor.__init__ *)

UpdateUiCall == [fn |-> "update_ui", sn |-> None, pd |-> EmptyDict]
CreateTabCall(sn, pd) == [fn |-> "create_battery_tab", sn |-> sn, pd |-> pd]

\* lines 451-453: the status left by setup_mqtt when connect() raises
SetupError == "Error: [Errno 111] Connection refused"

\* setup_mqtt, called by __init__, either starts the network loop (the status is
\* still 'Disconnected') or fails before loop_start() and leaves SetupError
Init ==
  /\ battery_sources = EmptyDict
  /\ system = EmptyDict
  /\ conn_status \in {"Disconnected", SetupError}
  /\ last_update = NoTime
  /\ battery_tabs = {}
  /\ notebook = <<"System">>
  /\ battery_widgets = EmptyDict
  /\ connection_label = [text |-> "Disconnected", style |-> "Critical.TLabel"]
  /\ system_view = [cpu_progress |-> 0, cpu |-> "0%", memory_progress |-> 0,
                    memory |-> "0%", fan_rpm |-> "-- RPM", fan_load |-> "(-- %)",
                    power_tree |-> <<>>]
  /\ after_queue = <<>>
  /\ m_pc = "idle"
  /\ m_payload = EmptyDict
  /\ m_source = None
  /\ n_msgs = 0
  /\ upd_pc = "schedule"
  /\ running = TRUE
  /\ now = 0
  /\ ui_todo = <<>>
  /\ ui_seen = {}

----------------------------------------------------------------------------
(* The MQTT thread: on_mqtt_connect, on_mqtt_disconnect, on_mqtt_message *)

ReturnCodes == {0, 5}

\* the status taken for any return code
connect_status_ok(rc) == "Connected"

\* lines 457-463
connect_status(rc) ==
  IF rc = 0 THEN "Connected" ELSE "Connection failed (" \o ToString(rc) \o ")"

\* paho calls back only once loop_start() of line 449 has run
on_mqtt_connect(rc) ==
  /\ running /\ m_pc = "idle" /\ conn_status \notin {"Connected", SetupError}
  /\ conn_status' = connect_status(rc)
  /\ UNCHANGED <<battery_sources, system, last_update, gui, after_queue, m_pc,
                 m_payload, m_source, n_msgs, upd_pc, running, now, tick>>

on_mqtt_disconnect ==
  /\ running /\ m_pc = "idle" /\ conn_status = "Connected"
  /\ conn_status' = "Disconnected"
  /\ UNCHANGED <<battery_sources, system, last_update, gui, after_queue, m_pc,
                 m_payload, m_source, n_msgs, upd_pc, running, now, tick>>

\* the arrival stamped before the payload is decoded
arrival_stamp_first(decoded) == now

\* a handler that keeps no time of arrival
arrival_stamp_never(decoded) == last_update

\* line 480, reached only with a decoded dict
arrival_stamp(decoded) == IF decoded THEN now ELSE last_update

\* both usage values stored under the CPU's key
store_metric_one_key(payload) ==
  CASE device_type(payload) \in {"CPU", "Memory"} ->
         dict_set(system, "cpu_usage", Get(payload, "usage", VInt(0)))
    [] device_type(payload) = "Fan" ->
         dict_set(system, "fan_rpm", Get(payload, "rpm", VInt(0)))
    [] device_type(payload) = "SystemPower" ->
         dict_set(system, "power_channels", Get(payload, "channels", VList(<<>>)))
    [] OTHER -> system

\* lines 493-502: self.data['system'] after the first write of a system metric
store_metric(payload) ==
  CASE device_type(payload) = "CPU" ->
         dict_set(system, "cpu_usage", Get(payload, "usage", VInt(0)))
    [] device_type(payload) = "Memory" ->
         dict_set(system, "memory_usage", Get(payload, "usage", VInt(0)))
    [] device_type(payload) = "Fan" ->
         dict_set(system, "fan_rpm", Get(payload, "rpm", VInt(0)))
    [] device_type(payload) = "SystemPower" ->
         dict_set(system, "power_channels", Get(payload, "channels", VList(<<>>)))
    [] OTHER -> system

\* lines 473-512: decode, stamp the arrival, classify; a system metric is stored,
\* a battery record merged.  json.JSONDecodeError, and the AttributeError of
\* payload.get on a value that is no dict, end the handler before any write.
on_mqtt_message(raw) ==
  /\ running /\ m_pc = "idle" /\ conn_status = "Connected" /\ n_msgs < MaxMsgs
  /\ n_msgs' = n_msgs + 1
  /\ IF json_loads(raw).ok /\ json_loads(raw).dict
     THEN LET payload == json_loads(raw).value
              source_name == source_name_for(payload)
          IN
          /\ m_payload' = payload
          /\ m_source' = source_name
          /\ m_pc' = IF source_name # None THEN "schedule"
                     ELSE IF device_type(payload) = "Fan" THEN "fan_load"
                     ELSE "return"
          /\ battery_sources' =
               IF source_name # None
               THEN dict_set(battery_sources, source_name,
                             dict_update(Get(battery_sources, source_name, EmptyDict),
                                         payload))
               ELSE battery_sources
          /\ system' = store_metric(payload)
     ELSE UNCHANGED <<m_payload, m_source, m_pc, battery_sources, system>>
  /\ last_update' = arrival_stamp(json_loads(raw).ok /\ json_loads(raw).dict)
  /\ ui_seen' = IF ui_todo # <<>> THEN ui_seen \cup {battery_sources'} ELSE ui_seen
  /\ UNCHANGED <<conn_status, gui, after_queue, upd_pc, running, now, ui_todo>>

\* the handler returns
on_mqtt_message_return ==
  /\ m_pc = "return"
  /\ m_pc' = "idle"
  /\ m_payload' = EmptyDict
  /\ m_source' = None
  /\ UNCHANGED <<core, gui, after_queue, n_msgs, upd_pc, running, now, tick>>

\* line 499
on_mqtt_message_fan_load ==
  /\ m_pc = "fan_load"
  /\ system' = dict_set(system, "fan_load", Get(m_payload, "load", VInt(0)))
  /\ m_pc' = "idle"
  /\ m_payload' = EmptyDict
  /\ m_source' = None
  /\ UNCHANGED <<battery_sources, conn_status, last_update, gui, after_queue,
                 n_msgs, upd_pc, running, now, tick>>

\* lines 514-517: queue the creation of the tab on the main thread
on_mqtt_message_schedule ==
  /\ m_pc = "schedule"
  /\ after_queue' = IF m_source \notin battery_tabs
                    THEN Append(after_queue, CreateTabCall(m_source, m_payload))
                    ELSE after_queue
  /\ m_pc' = "idle"
  /\ m_payload' = EmptyDict
  /\ m_source' = None
  /\ UNCHANGED <<core, gui, n_msgs, upd_pc, running, now, tick>>

----------------------------------------------------------------------------
(* The update thread: update_loop; and the passing of time *)

update_loop ==
  /\ upd_pc = "schedule"
  /\ IF running
     THEN /\ after_queue' = Append(after_queue, UpdateUiCall)
          /\ upd_pc' = "sleep"
     ELSE /\ upd_pc' = "done"
          /\ UNCHANGED after_queue
  /\ UNCHANGED <<core, gui, m_pc, m_payload, m_source, n_msgs, running, now, tick>>

\* Time passes while the threads wait: the MQTT thread for the network, the main
\* thread for an event, the update thread in time.sleep(1), which then returns.
Elapse(d) ==
  /\ now + d <= MaxTime
  /\ m_pc = "idle" /\ after_queue = <<>> /\ ui_todo = <<>> /\ upd_pc # "schedule"
  /\ now' = now + d
  /\ upd_pc' = IF upd_pc = "sleep" THEN "schedule" ELSE upd_pc
  /\ UNCHANGED <<core, gui, after_queue, m_pc, m_payload, m_source, n_msgs, running,
                 tick>>

----------------------------------------------------------------------------
(* The main thread: the queued callbacks, on_closing *)

\* the creation without its guard
tab_exists_unchecked(source_name) == FALSE

\* line 128
tab_exists(source_name) == source_name \in battery_tabs

create_battery_tab ==
  /\ running /\ ui_todo = <<>>
  /\ after_queue # <<>> /\ Head(after_queue).fn = "create_battery_tab"
  /\ after_queue' = Tail(after_queue)
  /\ LET source_name == Head(after_queue).sn
         payload_data == Head(after_queue).pd
     IN IF tab_exists(source_name)
        THEN UNCHANGED <<battery_tabs, notebook, battery_widgets>>
        ELSE /\ notebook' = Append(notebook, source_name)
             /\ battery_tabs' = battery_tabs \cup {source_name}
             /\ battery_widgets' =
                  dict_set(battery_widgets, source_name,
                           new_widgets(source_name, payload_data))
  /\ UNCHANGED <<core, connection_label, system_view, m_pc, m_payload, m_source,
                 n_msgs, upd_pc, running, now, tick>>

\* self.battery_tabs.keys(): a dict keeps the order of insertion, which is the
\* order in which create_battery_tab added the tabs to the notebook
tab_keys == Tail(notebook)

\* how many sources the loop of lines 558-560 calls update_battery_tab for: all of
\* them, or those up to the first whose update raises
tabs_reached ==
  IF \E i \in 1..Len(tab_keys) : update_battery_tab_raises(tab_keys[i])
  THEN CHOOSE i \in 1..Len(tab_keys) :
         /\ update_battery_tab_raises(tab_keys[i])
         /\ \A j \in 1..(i - 1) : ~update_battery_tab_raises(tab_keys[j])
  ELSE Len(tab_keys)

\* the try block of lines 539-563 is left at the first exception
update_ui_raises == \E i \in 1..Len(tab_keys) : update_battery_tab_raises(tab_keys[i])

\* the time of the tick kept as the time of the last message
update_ui_last_update_now == now

\* line 542: the tick reads the time of the last message and assigns nothing in
\* self.data
update_ui_last_update == last_update

\* lines 537-566: one try block around the connection label, the loop over the
\* tabs and update_system_display; the handler of line 565 only prints
update_ui ==
  /\ running /\ ui_todo = <<>>
  /\ after_queue # <<>> /\ Head(after_queue).fn = "update_ui"
  /\ after_queue' = Tail(after_queue)
  /\ connection_label' = connection_config
  /\ LET reached == {tab_keys[i] : i \in 1..tabs_reached} IN
     battery_widgets' =
       [source_name \in DOMAIN battery_widgets |->
          IF source_name \in reached THEN update_battery_tab(source_name)
          ELSE battery_widgets[source_name]]
  /\ system_view' = IF update_ui_raises THEN system_view ELSE update_system_display
  /\ last_update' = update_ui_last_update
  /\ UNCHANGED <<battery_sources, system, conn_status, battery_tabs, notebook, m_pc,
                 m_payload, m_source, n_msgs, upd_pc, running, now, tick>>

\* update_ui statement by statement, each reading self.data as it is when the
\* statement runs: the rows of a source one by one, its progress bar, its three
\* sections, then the rows of the System tab
Statement(op, sn, key) == [op |-> op, sn |-> sn, key |-> key, val |-> VInt(0)]

update_battery_tab_statements(source_name) ==
  LET rows == battery_widgets[source_name].rows IN
     [i \in 1..Len(rows) |-> Statement("label", source_name, rows[i][2])]
  \o << Statement("progress", source_name, ""), Statement("cells", source_name, ""),
        Statement("temps", source_name, ""), Statement("faults", source_name, "") >>

update_system_display_statements ==
  << Statement("cpu", None, ""), Statement("memory", None, ""),
     Statement("fan_rpm", None, ""), Statement("fan_load", None, ""),
     Statement("power", None, "") >>

RECURSIVE update_ui_statements(_)
update_ui_statements(keys) ==
  IF keys = <<>> THEN update_system_display_statements
  ELSE update_battery_tab_statements(Head(keys)) \o update_ui_statements(Tail(keys))

\* lines 539-556: the callback starts and sets the connection label
update_ui_begin ==
  /\ running /\ ui_todo = <<>>
  /\ after_queue # <<>> /\ Head(after_queue).fn = "update_ui"
  /\ after_queue' = Tail(after_queue)
  /\ connection_label' = connection_config
  /\ ui_todo' = update_ui_statements(tab_keys)
  /\ ui_seen' = {battery_sources}
  /\ last_update' = update_ui_last_update
  /\ UNCHANGED <<battery_sources, system, conn_status, battery_tabs, notebook,
                 battery_widgets, system_view, m_pc, m_payload, m_source, n_msgs,
                 upd_pc, running, now>>

\* the next statement of the tick; an exception ends the tick
update_ui_step ==
  /\ ui_todo # <<>>
  /\ LET st == Head(ui_todo)
         source_data == Get(battery_sources, st.sn, EmptyDict)
         widgets == battery_widgets[st.sn]
         raises ==
           \/ st.op = "cells" /\ update_cells_display_raises(source_data)
           \/ st.op = "temps" /\ update_temps_display_raises(source_data)
     IN
     /\ battery_widgets' =
          CASE st.op = "label" ->
                 [battery_widgets EXCEPT
                    ![st.sn].labels[st.key] = label_config(st.key, source_data)]
            [] st.op = "progress" ->
                 [battery_widgets EXCEPT
                    ![st.sn].progress = progress_config(widgets, source_data).progress,
                    ![st.sn].percent_label =
                       progress_config(widgets, source_data).percent_label]
            [] st.op = "cells" ->
                 [battery_widgets EXCEPT
                    ![st.sn].cells_tree = cells_section(widgets, source_data).cells_tree,
                    ![st.sn].cells_items = cells_section(widgets, source_data).cells_items]
            [] st.op = "temps" ->
                 [battery_widgets EXCEPT
                    ![st.sn].temps_tree = temps_section(widgets, source_data).temps_tree,
                    ![st.sn].temps_items = temps_section(widgets, source_data).temps_items]
            [] st.op = "faults" ->
                 [battery_widgets EXCEPT
                    ![st.sn].faults_text = faults_section(widgets, source_data).faults_text,
                    ![st.sn].faults_content =
                       faults_section(widgets, source_data).faults_content]
            [] OTHER -> battery_widgets
     /\ system_view' =
          CASE st.op = "cpu" ->
                 [system_view EXCEPT !.cpu_progress = update_system_display.cpu_progress,
                                     !.cpu = update_system_display.cpu]
            [] st.op = "memory" ->
                 [system_view EXCEPT
                    !.memory_progress = update_system_display.memory_progress,
                    !.memory = update_system_display.memory]
            [] st.op = "fan_load" ->
                 [system_view EXCEPT
                    !.fan_rpm = fan_rpm_text(st.val),
                    !.fan_load = fan_load_text(Get(system, "fan_load", VInt(0)))]
            [] st.op = "power" ->
                 [system_view EXCEPT !.power_tree = update_system_display.power_tree]
            [] OTHER -> system_view
     /\ ui_todo' =
          IF raises THEN <<>>
          ELSE IF st.op = "fan_rpm"
          THEN <<[ui_todo[2] EXCEPT !.val = Get(system, "fan_rpm", VInt(0))]>>
               \o Tail(Tail(ui_todo))
          ELSE Tail(ui_todo)
     /\ ui_seen' = IF raises \/ Tail(ui_todo) = <<>> THEN {} ELSE ui_seen
  /\ UNCHANGED <<core, battery_tabs, notebook, connection_label, after_queue, m_pc,
                 m_payload, m_source, n_msgs, upd_pc, running, now>>

\* a window that keeps its queued callbacks when it is destroyed
destroyed_queue_kept == after_queue

\* line 807: root.destroy() drops the queued callbacks
destroyed_queue == <<>>

\* loop_stop() joins the MQTT thread, root.destroy() drops the queued callbacks
on_closing ==
  /\ running /\ m_pc = "idle" /\ ui_todo = <<>>
  /\ running' = FALSE
  /\ after_queue' = destroyed_queue
  /\ UNCHANGED <<core, gui, m_pc, m_payload, m_source, n_msgs, upd_pc, now, tick>>

----------------------------------------------------------------------------

Next ==
  \/ \E rc \in ReturnCodes : on_mqtt_connect(rc)
  \/ on_mqtt_disconnect
  \/ \E i \in 1..Len(Payloads) : on_mqtt_message(Payloads[i])
  \/ on_mqtt_message_return
  \/ on_mqtt_message_fan_load
  \/ on_mqtt_message_schedule
  \/ update_loop
  \/ \E d \in TimeSteps : Elapse(d)
  \/ create_battery_tab
  \/ update_ui

Spec == Init /\ [][Next]_vars

\* the program fed with FailurePayloads
NextFailure ==
  \/ \E rc \in ReturnCodes : on_mqtt_connect(rc)
  \/ on_mqtt_disconnect
  \/ \E i \in 1..Len(FailurePayloads) : on_mqtt_message(FailurePayloads[i])
  \/ on_mqtt_message_return
  \/ on_mqtt_message_fan_load
  \/ on_mqtt_message_schedule
  \/ update_loop
  \/ \E d \in TimeSteps : Elapse(d)
  \/ create_battery_tab
  \/ update_ui

SpecFailure == Init /\ [][NextFailure]_vars

\* the program fed with RacePayloads, the threads interleaved at every read that
\* update_ui makes of self.data
NextRace ==
  \/ \E rc \in ReturnCodes : on_mqtt_connect(rc)
  \/ on_mqtt_disconnect
  \/ \E i \in 1..Len(RacePayloads) : on_mqtt_message(RacePayloads[i])
  \/ on_mqtt_message_return
  \/ on_mqtt_message_fan_load
  \/ on_mqtt_message_schedule
  \/ update_loop
  \/ \E d \in TimeSteps : Elapse(d)
  \/ create_battery_tab
  \/ update_ui_begin
  \/ update_ui_step

SpecRace == Init /\ [][NextRace]_vars

\* The main thread runs the callbacks queued with root.after, the MQTT thread goes
\* on to the end of its handler, the update thread queues its tick.
Fairness ==
  /\ WF_vars(create_battery_tab)
  /\ WF_vars(update_ui)
  /\ WF_vars(on_mqtt_message_return)
  /\ WF_vars(on_mqtt_message_fan_load)
  /\ WF_vars(on_mqtt_message_schedule)
  /\ WF_vars(update_loop)

SpecFailureFair == SpecFailure /\ Fairness

\* The keys get_labels_for_source looks for, and the second keys of its pairs
LabelKeys ==
  {"battery_status", "time_remaining_fmt", "temperature", "battery_chemistry",
   "charge_fet", "discharge_fet", "charging_state", "cycles",
   "remaining_capacity_mah", "vmax", "vmin", "vdelta", "tmax", "tmin",
   "charger_present", "load_present", "status_reason", "critical_fault_count",
   "warning_fault_count", "battery_cells_series", "battery_cells_parallel",
   "battery_nominal_voltage"}

RECURSIVE KeySets(_)
\* the sets of at most n of these keys
KeySets(n) ==
  IF n = 0 THEN {{}}
  ELSE LET smaller == KeySets(n - 1)
       IN smaller \cup {s \cup {k} : s \in smaller, k \in LabelKeys}

\* the device and type fields of the four kinds of battery record
LabelHeads ==
  {[device |-> VStr("Battery"), type |-> VStr("INA238")],
   [device |-> VStr("Battery"), type |-> VStr("DalyBMS")],
   [device |-> VStr("Battery")],
   [device |-> VStr("BatteryStatus"), type |-> VStr("")]}

\* a battery record with the given keys
LabelRecord(head, keys) ==
  [k \in DOMAIN head \cup keys |-> IF k \in DOMAIN head THEN head[k] ELSE VInt(1)]

\* The first record of a source has been merged and the creation of its tab is
\* queued (lines 508-517); the record has a few of the keys, or all of them.
InitLabels ==
  \E head \in LabelHeads, keys \in KeySets(MaxKeys) \cup {LabelKeys} :
    LET payload == LabelRecord(head, keys)
        source_name == source_name_for(payload)
    IN
    /\ battery_sources = dict_set(EmptyDict, source_name, payload)
    /\ system = EmptyDict
    /\ conn_status = "Connected"
    /\ last_update = 0
    /\ battery_tabs = {}
    /\ notebook = <<"System">>
    /\ battery_widgets = EmptyDict
    /\ connection_label = [text |-> "Disconnected", style |-> "Critical.TLabel"]
    /\ system_view = [cpu_progress |-> 0, cpu |-> "0%", memory_progress |-> 0,
                      memory |-> "0%", fan_rpm |-> "-- RPM", fan_load |-> "(-- %)",
                      power_tree |-> <<>>]
    /\ after_queue = <<CreateTabCall(source_name, payload)>>
    /\ m_pc = "idle"
    /\ m_payload = EmptyDict
    /\ m_source = None
    /\ n_msgs = 1
    /\ upd_pc = "schedule"
    /\ running = TRUE
    /\ now = 0
    /\ ui_todo = <<>>
    /\ ui_seen = {}

\* line 158: create_battery_tab calls get_labels_for_source on the record
NextLabels == create_battery_tab

SpecLabels == InitLabels /\ [][NextLabels]_vars

\* a battery record, a system metric stored in one step and one stored in two
ClosingPayloads ==
  << Obj([device |-> VStr("Battery"), type |-> VStr("DalyBMS"), voltage |-> VInt(13)]),
     Obj([device |-> VStr("CPU"), usage |-> VInt(55)]),
     Obj([device |-> VStr("Fan"), rpm |-> VInt(1200), load |-> VInt(40)]) >>

\* line 532: once the window is closed the clock shows nothing any more, and
\* time.sleep(1) returns whatever the hour
update_loop_wake ==
  /\ ~running /\ upd_pc = "sleep"
  /\ upd_pc' = "schedule"
  /\ UNCHANGED <<core, gui, after_queue, m_pc, m_payload, m_source, n_msgs, running,
                 now, tick>>

\* the program fed with ClosingPayloads, the window closed at any moment
NextShutdown ==
  \/ \E rc \in ReturnCodes : on_mqtt_connect(rc)
  \/ on_mqtt_disconnect
  \/ \E i \in 1..Len(ClosingPayloads) : on_mqtt_message(ClosingPayloads[i])
  \/ on_mqtt_message_return
  \/ on_mqtt_message_fan_load
  \/ on_mqtt_message_schedule
  \/ update_loop
  \/ update_loop_wake
  \/ \E d \in TimeSteps : Elapse(d)
  \/ create_battery_tab
  \/ update_ui
  \/ on_closing

\* the update thread is scheduled: it goes on to its next statement, and its
\* time.sleep(1) returns
FairnessShutdown ==
  /\ WF_vars(update_loop)
  /\ WF_vars(update_loop_wake)

SpecShutdown == Init /\ [][NextShutdown]_vars /\ FairnessShutdown

\* the same, with the window closed at any moment
NextClosing == Next \/ on_closing

SpecClosing == Init /\ [][NextClosing]_vars

----------------------------------------------------------------------------
(* Properties *)

Field(d, k) == Get(d, k, VStr("")).s
ListOf(d, k) == Get(d, k, VList(<<>>)).l
SourceData(s) == Get(battery_sources, s, EmptyDict)
MergeStep == m_pc = "idle" /\ m_pc' = "schedule"

C1_Table(device, type) ==
  CASE device = "Battery" /\ type = "INA238" -> "INA238 Power Monitor"
    [] device = "Battery" /\ type = "DalyBMS" -> "Daly BMS"
    [] device = "Battery" /\ type \notin {"INA238", "DalyBMS"} -> "Battery Monitor"
    [] device = "BatteryStatus" -> "Unified Battery"
    [] OTHER -> None

\* C1: while on_mqtt_message holds a decoded record, the source it assigned is the
\* one the table gives for the record's (device, type) alone: INA238 Power Monitor,
\* Daly BMS, Battery Monitor for any other or absent type, Unified Battery for
\* BatteryStatus, and none for every other device.
C1_SourceByDeviceAndType ==
  m_pc # "idle" =>
    /\ m_source = C1_Table(Field(m_payload, "device"), Field(m_payload, "type"))
    /\ (m_pc = "schedule") = (m_source # None)
    /\ m_source # None => m_source \in DOMAIN battery_sources

C1_Witness ==
  /\ m_pc = "schedule" /\ m_source = "Daly BMS"
  /\ Field(m_payload, "type") = "DalyBMS"
  /\ DOMAIN m_payload \ {"device", "type"} # {}

\* C2: after a tick the rows of every tab are the rows the schema rules give for
\* the source's name and the keys of its merged state.
C2_RowsFollowMergedKeys ==
  [][update_ui =>
       \A s \in battery_tabs :
         battery_widgets'[s].rows = get_labels_for_source(s, SourceData(s))]_vars

\* C3: a merge is a shallow union: every key of the new record maps to the record's
\* value, every other key keeps its value, and no key or source is ever removed.
C3_MergeIsShallowUnion ==
  [][/\ \A s \in DOMAIN battery_sources :
          /\ s \in DOMAIN battery_sources'
          /\ \A k \in DOMAIN battery_sources[s] :
               /\ k \in DOMAIN battery_sources'[s]
               /\ \/ MergeStep /\ m_source' = s /\ k \in DOMAIN m_payload'
                  \/ battery_sources'[s][k] = battery_sources[s][k]
     /\ MergeStep =>
          \A k \in DOMAIN m_payload' : battery_sources'[m_source'][k] = m_payload'[k]]_vars

C3_Witness ==
  /\ m_pc = "schedule" /\ m_source = "Daly BMS"
  /\ "voltage" \in DOMAIN SourceData(m_source) \ DOMAIN m_payload
  /\ ListOf(m_payload, "cells") = <<>>
  /\ ListOf(SourceData(m_source), "cells") = <<>>

\* two records of one source that share nothing but equal routing fields
C4_Disjoint(q, r) ==
  /\ source_name_for(q) = source_name_for(r)
  /\ q # r
  /\ \A k \in DOMAIN q \cap DOMAIN r : k \in {"device", "type"} /\ q[k] = r[k]

C4_Union(q, r) == [k \in DOMAIN q \cup DOMAIN r |-> IF k \in DOMAIN r THEN r[k] ELSE q[k]]

\* C4: when a record r is merged, then for every record q of the same source whose
\* fields are disjoint from r's, merging q after r gives what merging r after q
\* would have given; on a new source that is the union of both records.
C4_MergeOrderIndependent ==
  [][MergeStep =>
       \A i \in 1..Len(Payloads) :
         LET q == Payloads[i].obj
             r == m_payload'
             before == SourceData(m_source')
         IN (Payloads[i].kind = "object" /\ C4_Disjoint(q, r)) =>
              /\ dict_update(battery_sources'[m_source'], q)
                   = dict_update(dict_update(before, q), r)
              /\ m_source' \notin DOMAIN battery_sources =>
                   dict_update(battery_sources'[m_source'], q) = C4_Union(q, r)]_vars

C4_Witness ==
  /\ m_pc = "schedule" /\ m_source = "Unified Battery"
  /\ \E i \in 1..Len(Payloads) :
       /\ Payloads[i].kind = "object"
       /\ C4_Disjoint(Payloads[i].obj, m_payload)
       /\ SourceData(m_source) = C4_Union(Payloads[i].obj, m_payload)

\* C5: a cells, temperatures or faults section that exists for a source exists in
\* every later state.
C5_SectionsStay ==
  [][\A s \in DOMAIN battery_widgets :
       /\ s \in DOMAIN battery_widgets'
       /\ battery_widgets[s].cells_tree => battery_widgets'[s].cells_tree
       /\ battery_widgets[s].temps_tree => battery_widgets'[s].temps_tree
       /\ battery_widgets[s].faults_text => battery_widgets'[s].faults_text]_vars

\* a tick has shown the state in which an empty cells list replaced a non-empty one
C5_Witness ==
  \E s \in DOMAIN battery_widgets :
    /\ battery_widgets[s].cells_tree
    /\ battery_widgets[s].cells_items # <<>>
    /\ "cells" \in DOMAIN SourceData(s)
    /\ ListOf(SourceData(s), "cells") = <<>>
    /\ battery_widgets[s].faults_content = <<"ACTIVE FAULTS:", "  * F1">>

\* C6: the notebook holds at most one tab per source, and the tabs are the sources
\* of battery_tabs together with the System tab.
C6_OneTabPerSource ==
  /\ \A i, j \in 1..Len(notebook) : notebook[i] = notebook[j] => i = j
  /\ {notebook[i] : i \in 1..Len(notebook)} = battery_tabs \cup {"System"}
  /\ DOMAIN battery_widgets = battery_tabs

\* a creation is still queued for a source whose tab an earlier one has made
C6_Witness ==
  \E i \in 1..Len(after_queue) :
    /\ after_queue[i].fn = "create_battery_tab"
    /\ after_queue[i].sn \in battery_tabs

\* C7: after a tick every row whose value is a boolean reads On or Off.
C7_BooleansReadOnOff ==
  [][update_ui =>
       \A s \in battery_tabs :
         \A k \in DOMAIN battery_widgets'[s].labels \cap DOMAIN SourceData(s) :
           SourceData(s)[k].t = "bool" =>
             battery_widgets'[s].labels[k].text
               = (IF SourceData(s)[k].n = 1 THEN "On" ELSE "Off")]_vars

C8_Block(header, faults) ==
  IF faults = <<>> THEN <<>>
  ELSE <<header>> \o [i \in 1..Len(faults) |-> "  * " \o faults[i]]

C8_Text(critical, warning, general) ==
  IF critical = <<>> /\ warning = <<>> /\ general = <<>> THEN <<"No active faults">>
  ELSE    C8_Block("CRITICAL FAULTS:", critical)
       \o C8_Block("WARNING FAULTS:", warning)
       \o (IF critical = <<>> /\ warning = <<>>
           THEN C8_Block("ACTIVE FAULTS:", general) ELSE <<>>)

\* C8: after a tick the fault text of a source is the critical block, then the
\* warning block, the generic block only when both of those lists are empty, and
\* "No active faults" exactly when all three lists are empty or absent.
C8_FaultText ==
  [][update_ui =>
       \A s \in battery_tabs :
         LET content == battery_widgets'[s].faults_content
             critical == ListOf(SourceData(s), "critical_faults")
             warning == ListOf(SourceData(s), "warning_faults")
             general == ListOf(SourceData(s), "faults")
         IN battery_widgets'[s].faults_text =>
              /\ content = C8_Text(critical, warning, general)
              /\ (content = <<"No active faults">>)
                   = (critical = <<>> /\ warning = <<>> /\ general = <<>>)
              /\ ("ACTIVE FAULTS:" \in {content[i] : i \in 1..Len(content)})
                   = (general # <<>> /\ critical = <<>> /\ warning = <<>>)]_vars

\* the generic list is there and only the critical block is shown
C8_Witness ==
  \E s \in DOMAIN battery_widgets :
    /\ battery_widgets[s].faults_content = <<"CRITICAL FAULTS:", "  * C1">>
    /\ ListOf(SourceData(s), "faults") = <<"F1">>

TickAtAge(age) ==
  conn_status = "Connected" /\ last_update # NoTime /\ now - last_update = age /\ update_ui

\* C9 as stated: a tick exactly 30 seconds after the last message shows the idle
\* warning.
C9_IdleAtThirty ==
  [][TickAtAge(30) =>
       connection_label' = [text |-> "Connected (No data for 30s)",
                            style |-> "Warning.TLabel"]]_vars

\* C9, amended: a tick exactly 30 seconds after the last message shows the fresh
\* status; the idle warning is shown from the first second beyond 30.
C9_FreshAtThirty ==
  [][/\ TickAtAge(30) =>
          connection_label' = [text |-> "Connected (Last: " \o strftime(last_update) \o ")",
                               style |-> "Normal.TLabel"]
     /\ TickAtAge(31) =>
          connection_label' = [text |-> "Connected (No data for 31s)",
                               style |-> "Warning.TLabel"]]_vars

\* the tick at second 30 has run, the last message being of second 0
C9_Witness ==
  /\ now = 30 /\ last_update = 0 /\ conn_status = "Connected"
  /\ upd_pc = "sleep" /\ after_queue = <<>>
  /\ connection_label = [text |-> "Connected (Last: 00:00:00)", style |-> "Normal.TLabel"]

\* C10: the handling of a payload that does not decode changes no source state,
\* no system state, no tab or widget, no queued callback and nothing of the
\* connection state, and leaves the MQTT thread ready for the next message.
C10_MalformedIsDropped ==
  [][\A i \in 1..Len(Payloads) :
       (~json_loads(Payloads[i]).ok /\ on_mqtt_message(Payloads[i])) =>
         /\ UNCHANGED <<core, gui, after_queue>>
         /\ m_pc' = "idle"]_vars

\* a message has been handled and has left no trace: no arrival was stamped
C10_Witness ==
  /\ n_msgs = 1 /\ m_pc = "idle" /\ m_payload = EmptyDict
  /\ last_update = NoTime /\ conn_status = "Connected"
  /\ DOMAIN battery_sources = {} /\ system = EmptyDict

\* C11: a tick in which the update of one source raises still updates every
\* other source with a tab, and the System rows.
C11_FailureDoesNotBlock ==
  [][(update_ui /\ \E s \in battery_tabs : update_battery_tab_raises(s)) =>
       /\ \A s \in battery_tabs :
            ~update_battery_tab_raises(s) =>
              battery_widgets'[s] = updated_widgets(battery_widgets[s], SourceData(s))
       /\ system_view' = update_system_display]_vars

\* C12: when a tick has run the last statement of update_battery_tab for a source,
\* the rows and the percentage it has shown for the source are those of one single
\* value the store had during the tick.
C12_TickShowsOneState ==
  [][(update_ui_step /\ Head(ui_todo).op = "faults") =>
       LET s == Head(ui_todo).sn IN
       \E seen \in ui_seen :
         LET shown == updated_widgets(battery_widgets[s], Get(seen, s, EmptyDict)) IN
         /\ battery_widgets'[s].labels = shown.labels
         /\ battery_widgets'[s].percent_label = shown.percent_label]_vars

SystemDevices == {"CPU", "Memory", "Fan", "SystemPower"}

\* the System field a device's message is stored under, and the field of the message
C13_Stored(device) ==
  CASE device = "CPU" -> <<"cpu_usage", "usage">>
    [] device = "Memory" -> <<"memory_usage", "usage">>
    [] device = "Fan" -> <<"fan_rpm", "rpm">>
    [] device = "SystemPower" -> <<"power_channels", "channels">>

\* C13: a message of CPU, Memory, Fan or SystemPower creates no source state and
\* queues or makes no tab, and leaves its values in the System state (the Fan's
\* rpm and load both, once its handler is through); a source state appears only
\* when a battery record is merged, and with no source state there is no tab and
\* no queued creation.
C13_SystemMessagesOnly ==
  /\ [](DOMAIN battery_sources = {} =>
          /\ battery_tabs = {} /\ notebook = <<"System">>
          /\ \A i \in 1..Len(after_queue) : after_queue[i].fn # "create_battery_tab")
  /\ [][/\ DOMAIN battery_sources' # DOMAIN battery_sources => MergeStep
        /\ n_msgs' # n_msgs =>
             \A i \in 1..Len(Payloads) :
               LET payload == Payloads[i].obj
                   device == device_type(payload)
               IN (device \in SystemDevices /\ on_mqtt_message(Payloads[i])) =>
                    /\ UNCHANGED <<battery_sources, gui, after_queue>>
                    /\ C13_Stored(device)[1] \in DOMAIN system'
                    /\ system'[C13_Stored(device)[1]] = payload[C13_Stored(device)[2]]
                    /\ \A k \in DOMAIN system \ {C13_Stored(device)[1]} :
                         system'[k] = system[k]
        /\ on_mqtt_message_fan_load =>
             /\ UNCHANGED <<battery_sources, gui, after_queue>>
             /\ "fan_rpm" \in DOMAIN system'
             /\ system'["fan_rpm"] = m_payload["rpm"]
             /\ system'["fan_load"] = m_payload["load"]
             /\ \A k \in DOMAIN system \ {"fan_load"} : system'[k] = system[k]
        /\ on_mqtt_message_return =>
             UNCHANGED <<battery_sources, system, gui, after_queue>>]_vars

\* {device: CPU, usage: 55} then {device: Fan, rpm: 1200, load: 40}
C13_Witness ==
  /\ n_msgs = 2 /\ m_pc = "idle"
  /\ system = [cpu_usage |-> VInt(55), fan_rpm |-> VInt(1200), fan_load |-> VInt(40)]
  /\ battery_sources = EmptyDict /\ battery_tabs = {} /\ after_queue = <<>>

KnownDevices == {"Battery", "BatteryStatus"} \cup SystemDevices

\* C14: the handling of a decoded record whose device is none of the six known
\* ones changes no source state, no System field, no tab or widget and no queued
\* callback, from its first statement to its return.
C14_UnknownDeviceIgnored ==
  [][/\ n_msgs' # n_msgs =>
          \A i \in 1..Len(Payloads) :
            (/\ json_loads(Payloads[i]).dict
             /\ device_type(Payloads[i].obj) \notin KnownDevices
             /\ on_mqtt_message(Payloads[i])) =>
              /\ UNCHANGED <<battery_sources, system, gui, after_queue>>
              /\ m_pc' = "return"
     /\ (on_mqtt_message_return /\ device_type(m_payload) \notin KnownDevices) =>
          UNCHANGED <<battery_sources, system, gui, after_queue>>]_vars

\* a GPS record is being handled beside a source state it has not touched
C14_Witness ==
  /\ m_pc = "return" /\ device_type(m_payload) = "GPS"
  /\ DOMAIN battery_sources = {"Daly BMS"}
  /\ Field(SourceData("Daly BMS"), "device") = "Battery"
  /\ "Daly BMS" \in battery_tabs

C15_Joined(sources) ==
  CASE Len(sources) = 0 -> ""
    [] Len(sources) = 1 -> sources[1]
    [] Len(sources) = 2 -> sources[1] \o ", " \o sources[2]

\* C15: after a tick the Data Sources row of the Unified Battery tab reads the
\* entries of the sources list joined with ", " when the merged state has a sources
\* list, else its sources_str, else "--".
C15_DataSourcesRow ==
  [][(update_ui /\ "Unified Battery" \in battery_tabs) =>
       LET d == SourceData("Unified Battery")
           text == battery_widgets'["Unified Battery"].labels["sources_str"].text
       IN /\ "sources" \in DOMAIN d => text = C15_Joined(d["sources"].l)
          /\ ("sources" \notin DOMAIN d /\ "sources_str" \in DOMAIN d) =>
               text = d["sources_str"].s
          /\ ("sources" \notin DOMAIN d /\ "sources_str" \notin DOMAIN d) =>
               text = "--"]_vars

\* the list is shown although the merged state has a sources_str as well
C15_Witness ==
  /\ "Unified Battery" \in battery_tabs
  /\ ListOf(SourceData("Unified Battery"), "sources") = <<"INA238", "DalyBMS">>
  /\ Field(SourceData("Unified Battery"), "sources_str") = "INA238"
  /\ battery_widgets["Unified Battery"].labels["sources_str"].text = "INA238, DalyBMS"

C16_Class(level) ==
  CASE level <= 20 -> "Critical.TLabel"
    [] level > 20 /\ level <= 40 -> "Warning.TLabel"
    [] level > 40 -> "Normal.TLabel"

\* C16: after a tick the percentage of every source whose battery_level is a
\* number has the critical style up to 20, the warning style above 20 and up to
\* 40, the normal style above 40.
C16_LevelStyle ==
  [][update_ui =>
       \A s \in battery_tabs :
         LET battery_level == Get(SourceData(s), "battery_level", VInt(0)) IN
         IsNumber(battery_level) =>
           battery_widgets'[s].percent_label =
             [text |-> ToString(battery_level.n) \o ".0%",
              style |-> C16_Class(battery_level.n)]]_vars

\* both limits are on display: 20 as critical, 40 as warning
C16_Witness ==
  /\ {"Daly BMS", "Unified Battery"} \subseteq battery_tabs
  /\ Get(SourceData("Daly BMS"), "battery_level", VInt(0)) = VInt(20)
  /\ Get(SourceData("Unified Battery"), "battery_level", VInt(0)) = VInt(40)
  /\ battery_widgets["Daly BMS"].percent_label =
       [text |-> "20.0%", style |-> "Critical.TLabel"]
  /\ battery_widgets["Unified Battery"].percent_label =
       [text |-> "40.0%", style |-> "Warning.TLabel"]

\* C17: what a tick has put on display for a source is what the next tick puts
\* there again when the source state is still the same: rows, texts, colours,
\* progress, sections, cell and temperature rows, fault text.
C17_TickIdempotent ==
  [][update_ui =>
       \A s \in battery_tabs :
         updated_widgets(battery_widgets'[s], SourceData(s)) = battery_widgets'[s]]_vars

\* the tick of second 30 has run over the state of second 0, cells on display
C17_Witness ==
  /\ now = 30 /\ last_update = 0 /\ upd_pc = "sleep" /\ after_queue = <<>>
  /\ connection_label.text = "Connected (Last: 00:00:00)"
  /\ \E s \in battery_tabs :
       /\ battery_widgets[s].cells_items # <<>>
       /\ battery_widgets[s].labels["voltage"].text = "13.00"
       /\ battery_widgets[s] = updated_widgets(battery_widgets[s], SourceData(s))

IsPrefix(p, q) == Len(p) <= Len(q) /\ \A i \in 1..Len(p) : p[i] = q[i]

\* C18: no step removes a source, a field of a source or a tab; a source state
\* appears exactly in the step that merges the first record classified to it, and
\* every merge leaves the state of its source in the store.
C18_NothingEvicted ==
  [][/\ \A s \in DOMAIN battery_sources :
          /\ s \in DOMAIN battery_sources'
          /\ DOMAIN battery_sources[s] \subseteq DOMAIN battery_sources'[s]
     /\ battery_tabs \subseteq battery_tabs'
     /\ IsPrefix(notebook, notebook')
     /\ \A s \in DOMAIN battery_sources' \ DOMAIN battery_sources :
          MergeStep /\ m_source' = s
     /\ MergeStep => m_source' \in DOMAIN battery_sources']_vars

\* two sources and their tabs are there after a tick and the loss of the connection
C18_Witness ==
  /\ Cardinality(DOMAIN battery_sources) = 2
  /\ battery_tabs = DOMAIN battery_sources
  /\ conn_status = "Disconnected" /\ connection_label.text = "Disconnected"
  /\ now >= 30

SourceNames ==
  {"INA238 Power Monitor", "Daly BMS", "Battery Monitor", "Unified Battery"}

\* C19: every source that is in the store gets its tab in the end, and every tick
\* brings the rows of every source that has a tab up to the source's state.
C19_TabThenEveryTick ==
  /\ \A s \in SourceNames : (s \in DOMAIN battery_sources) ~> (s \in battery_tabs)
  /\ [][update_ui =>
          \A s \in battery_tabs :
            \A k \in DOMAIN battery_widgets'[s].labels :
              battery_widgets'[s].labels[k] = label_config(k, SourceData(s))]_vars

\* C20: at the end of every tick, every source with a tab has its cells section
\* when its cells list is not empty, its temperatures section when its
\* temperatures list is not empty, its faults section when one of its three fault
\* lists is not empty.
C20_SectionsFollowData ==
  [][update_ui =>
       \A s \in battery_tabs :
         /\ Truthy(Get(SourceData(s), "cells", VList(<<>>))) =>
              battery_widgets'[s].cells_tree
         /\ Truthy(Get(SourceData(s), "temperatures", VList(<<>>))) =>
              battery_widgets'[s].temps_tree
         /\ any_faults(SourceData(s)) => battery_widgets'[s].faults_text]_vars

\* C21: a tick shows 'Connected (Last: <time>)' in the normal style when the
\* status is Connected and the last message is at most 30 seconds old; the raw
\* status in the critical style whenever the status is not Connected, however
\* recent the last message; and the raw status in the critical style when the
\* status is Connected and no message has ever arrived.
C21_ConnectionDisplay ==
  [][update_ui =>
       /\ (conn_status = "Connected" /\ last_update # NoTime
             /\ now - last_update <= 30) =>
            connection_label' = [text |-> "Connected (Last: " \o strftime(last_update) \o ")",
                                 style |-> "Normal.TLabel"]
       /\ conn_status # "Connected" =>
            connection_label' = [text |-> conn_status, style |-> "Critical.TLabel"]
       /\ (conn_status = "Connected" /\ last_update = NoTime) =>
            connection_label' = [text |-> "Connected", style |-> "Critical.TLabel"]]_vars

\* a tick has shown a failed reconnection although a message had arrived
C21_Witness ==
  /\ connection_label = [text |-> "Connection failed (5)", style |-> "Critical.TLabel"]
  /\ conn_status = "Connection failed (5)"
  /\ last_update # NoTime

\* the rows in the order of get_labels_for_source: the key whose presence adds the
\* row ("" for a row that is always there), the key of the row, the source that
\* has the row ("" for every source)
C22_Table ==
  << <<"", "voltage", "">>, <<"", "current", "">>, <<"", "power", "">>,
     <<"", "battery_level", "">>,
     <<"battery_status", "battery_status", "">>,
     <<"time_remaining_fmt", "time_remaining_fmt", "">>,
     <<"temperature", "temperature", "">>,
     <<"battery_chemistry", "battery_chemistry", "">>,
     <<"charge_fet", "charge_fet", "Daly BMS">>,
     <<"charge_fet", "discharge_fet", "Daly BMS">>,
     <<"charging_state", "charging_state", "Daly BMS">>,
     <<"cycles", "cycles", "Daly BMS">>,
     <<"remaining_capacity_mah", "remaining_capacity_mah", "Daly BMS">>,
     <<"vmax", "vmax", "Daly BMS">>, <<"vmax", "vmin", "Daly BMS">>,
     <<"vdelta", "vdelta", "Daly BMS">>,
     <<"tmax", "tmax", "Daly BMS">>, <<"tmax", "tmin", "Daly BMS">>,
     <<"charger_present", "charger_present", "Daly BMS">>,
     <<"charger_present", "load_present", "Daly BMS">>,
     <<"", "sources_str", "Unified Battery">>,
     <<"status_reason", "status_reason", "Unified Battery">>,
     <<"critical_fault_count", "critical_fault_count", "Unified Battery">>,
     <<"critical_fault_count", "warning_fault_count", "Unified Battery">>,
     <<"battery_cells_series", "battery_cells_series", "Unified Battery">>,
     <<"battery_cells_series", "battery_cells_parallel", "Unified Battery">>,
     <<"battery_nominal_voltage", "battery_nominal_voltage", "Unified Battery">>,
     <<"charging_state", "charging_state", "Unified Battery">> >>

C22_Due(entry, source_name, keys) ==
  /\ entry[1] = "" \/ entry[1] \in keys
  /\ entry[3] = "" \/ entry[3] = source_name

\* C22: the rows of a new tab are the four base rows, then the status, time
\* remaining, temperature and chemistry rows whose key is in the record, then for
\* 'Daly BMS' only the Daly rows and for 'Unified Battery' only the Unified rows
\* ('Data Sources' whatever the keys), each row present exactly when its key is
\* in the record and each pair exactly when the first key of the pair is.
C22_RowsOfSource ==
  \A s \in battery_tabs :
    LET rows == battery_widgets[s].rows
        due == SelectSeq(C22_Table,
                         LAMBDA entry : C22_Due(entry, s, DOMAIN battery_sources[s]))
    IN [i \in 1..Len(rows) |-> rows[i][2]] = [i \in 1..Len(due) |-> due[i][2]]

\* a Daly BMS tab made from a record with charge_fet and without discharge_fet
\* has both rows of the pair, and no row of the Unified Battery
C22_Witness ==
  /\ "Daly BMS" \in battery_tabs
  /\ "charge_fet" \in DOMAIN battery_sources["Daly BMS"]
  /\ "discharge_fet" \notin DOMAIN battery_sources["Daly BMS"]
  /\ {"charge_fet", "discharge_fet"} \subseteq RowKeys(battery_widgets["Daly BMS"].rows)
  /\ "sources_str" \notin RowKeys(battery_widgets["Daly BMS"].rows)

\* C23: a tick leaves every source state, the system state, the connection
\* status and the time of the last message as they were; they change only in
\* steps of the MQTT thread, which leave the widgets, the queue of callbacks and
\* the other two threads where they were.
C23_TickReadsOnly ==
  [][core' # core =>
       /\ ~update_ui
       /\ UNCHANGED <<gui, after_queue, upd_pc, running, now, ui_todo>>
       /\ \/ conn_status' # conn_status
          \/ n_msgs' = n_msgs + 1
          \/ m_pc = "fan_load"]_vars

\* a tick has shown a source and a system metric, and the store still holds both
C23_Witness ==
  /\ "Daly BMS" \in DOMAIN battery_widgets
  /\ battery_widgets["Daly BMS"].labels["voltage"].text # "--"
  /\ system_view.cpu # "0%"
  /\ Get(battery_sources["Daly BMS"], "voltage", VNull) = VInt(13)
  /\ Get(system, "cpu_usage", VNull) = VInt(55)
  /\ conn_status = "Connected" /\ last_update # NoTime

\* C24: once on_closing has run the update thread comes to its end, no callback
\* is queued or run any more (no tick, no tab), and no message is handled: the
\* store, the connection state and the widgets stay as they were.
C24_ClosingStops ==
  /\ ~running ~> upd_pc = "done"
  /\ [](~running => after_queue = <<>>)
  /\ [][~running => UNCHANGED <<core, gui, n_msgs, m_pc>>]_vars

\* the window was closed after a tab had been made for a connected source, and
\* the update thread has ended
C24_Witness ==
  /\ ~running /\ upd_pc = "done"
  /\ "Daly BMS" \in battery_tabs
  /\ n_msgs >= 1 /\ conn_status = "Connected"

\* the fan speed and load a tick shows for the fields of one Fan message
C25_Shown(payload) ==
  <<fan_rpm_text(Get(payload, "rpm", VInt(0))), fan_load_text(Get(payload, "load", VInt(0)))>>

\* C25: the fan speed and the fan load on the System tab are at any moment those
\* of one Fan message, or those of the state before any Fan message; a tick never
\* shows the speed of one message beside the load of another.
C25_FanPairOfOneMessage ==
  \/ <<system_view.fan_rpm, system_view.fan_load>> = <<"-- RPM", "(-- %)">>
  \/ <<system_view.fan_rpm, system_view.fan_load>> = C25_Shown(EmptyDict)
  \/ \E i \in 1..Len(RacePayloads) :
       /\ device_type(RacePayloads[i].obj) = "Fan"
       /\ <<system_view.fan_rpm, system_view.fan_load>> = C25_Shown(RacePayloads[i].obj)

\* C26 as stated: a message sets the time of the last message to the time of its
\* arrival exactly when its payload decodes, that is when json.loads returns.
C26_StampIffDecodes ==
  [][n_msgs' # n_msgs =>
       \A i \in 1..Len(Payloads) :
         on_mqtt_message(Payloads[i]) =>
           last_update' = IF json_loads(Payloads[i]).ok THEN now ELSE last_update]_vars

\* C26, amended: a message sets the time of the last message to the time of its
\* arrival exactly when its payload decodes to a JSON object, whatever its device;
\* a payload that is not JSON, and one that is JSON but no object (an array, a
\* scalar), leave the time as it was.  The time is never ahead of the clock the
\* tick measures the age with.
C26_StampIffRecord ==
  /\ [][n_msgs' # n_msgs =>
          \A i \in 1..Len(Payloads) :
            on_mqtt_message(Payloads[i]) =>
              last_update' = IF Payloads[i].kind = "object" THEN now ELSE last_update]_vars
  /\ [](last_update = NoTime \/ last_update <= now)

\* the one message handled so far was of no known device: nothing is stored, and
\* its arrival at second 30 is the time of the last message
C26_Witness ==
  /\ n_msgs = 1 /\ m_pc = "idle"
  /\ battery_sources = EmptyDict /\ system = EmptyDict
  /\ last_update = 30 /\ now = 30

\* C27: a connection, a refused connection and a disconnection set the status to
\* 'Connected', 'Connection failed (rc)' and 'Disconnected', return, and leave the
\* source states, the system state, the tabs, the widgets and the time of the
\* last message as they were; a tick while the status is not 'Connected' still
\* shows for every tab the values of its source state.
C27_ConnectionEventsOnlyStatus ==
  [][/\ conn_status' # conn_status =>
          /\ on_mqtt_connect(0) => conn_status' = "Connected"
          /\ on_mqtt_connect(5) => conn_status' = "Connection failed (5)"
          /\ on_mqtt_disconnect => conn_status' = "Disconnected"
          /\ on_mqtt_connect(0) \/ on_mqtt_connect(5) \/ on_mqtt_disconnect
          /\ UNCHANGED <<battery_sources, system, last_update, gui, after_queue>>
          /\ m_pc' = "idle"
     /\ (conn_status # "Connected" /\ update_ui) =>
          \A s \in battery_tabs :
            battery_widgets'[s] = updated_widgets(battery_widgets[s], SourceData(s))]_vars

\* thirty seconds after the message of second 0 the connection is lost, and a
\* tick has shown the lost connection above the voltage of the source
C27_Witness ==
  /\ conn_status = "Disconnected" /\ connection_label.text = "Disconnected"
  /\ last_update = 0 /\ now = 30
  /\ "Daly BMS" \in battery_tabs
  /\ battery_widgets["Daly BMS"].labels["voltage"].text # "--"

C28_Emptied(s, key) ==
  key \in DOMAIN SourceData(s) /\ SourceData(s)[key] = VList(<<>>)

\* C28: a tick that finds the cells (the temperatures) of a source overwritten by
\* an empty list leaves the rows the table had, neither cleared nor replaced; a
\* tick that finds no fault in any list of a source whose faults section exists
\* shows 'No active faults'.
C28_EmptyListKeepsRows ==
  [][update_ui =>
       \A s \in battery_tabs :
         /\ (battery_widgets[s].cells_items # <<>> /\ C28_Emptied(s, "cells")) =>
              battery_widgets'[s].cells_items = battery_widgets[s].cells_items
         /\ (battery_widgets[s].temps_items # <<>> /\ C28_Emptied(s, "temperatures")) =>
              battery_widgets'[s].temps_items = battery_widgets[s].temps_items
         /\ (/\ battery_widgets[s].faults_text
             /\ ListOf(SourceData(s), "critical_faults") = <<>>
             /\ ListOf(SourceData(s), "warning_faults") = <<>>
             /\ ListOf(SourceData(s), "faults") = <<>>) =>
              battery_widgets'[s].faults_content = <<"No active faults">>]_vars

\* the tick of second 30 has run over temperatures that an empty list had
\* overwritten at second 0: the table still has the row of the sensor
C28_Witness ==
  /\ now = 30 /\ last_update = 0 /\ upd_pc = "sleep" /\ after_queue = <<>>
  /\ "Battery Monitor" \in battery_tabs
  /\ C28_Emptied("Battery Monitor", "temperatures")
  /\ battery_widgets["Battery Monitor"].temps_items = <<temp_row(Temp1)>>

====
